---- MODULE Spec2Model ----
(***************************************************************************)
(* The Zoho CRM -> MySQL synchronisation of zoho_job_automation:          *)
(* etl/pipeline.py (the three bulk syncs and the sync tracker),           *)
(* zoho/api_client.py (the paginated fetch), database/models.py (the      *)
(* tables) and zoho/webhook_handler.py (the single-contact patch).        *)
(*                                                                         *)
(* Time is an integer number of hours.  A Zoho timestamp string such as   *)
(* 2024-01-15T10:00:00-02:00 is the pair of its wall-clock reading `loc`  *)
(* and its UTC offset `off`; the instant it denotes is loc - off.         *)
(***************************************************************************)
EXTENDS Integers, Sequences, FiniteSets, TLC

\* ---------------------------------------------------------------- bounds
\* Remote identifiers are 1..MaxIds.
MaxIds == 2
\* The remote clock runs from 0 to MaxTime.
MaxTime == 1
\* Records per page of the Zoho API (200 in the code, scaled down).
PerPage == 1
\* Webhook requests that the handler serves in one behaviour.
MaxHooks == 1

Ids == 1..MaxIds
\* UTC offsets that the Modified_Time strings of the remote system carry.
Offsets == {-2, 0}

\* ------------------------------------------------------------ the schema
EntityTypes == {"contacts", "accounts", "intern_roles"}

\* Python None / SQL NULL for a text value.
NULL == "None"
RawValues == {NULL, "x"}

\* The remote text fields each mapper reads (representatives of the field
\* lists passed to get_paginated_data), besides id and Modified_Time.
RawKeys(e) ==
  CASE e = "contacts" -> {"First_Name", "Last_Name", "Email", "Phone", "Role_Success_Stage"}
    [] e = "accounts" -> {"Account_Name"}
    [] e = "intern_roles" -> {"Name", "Role_Title"}

\* A lookup field each mapper reads with extract_id, and the column it fills.
RefKey(e) ==
  CASE e = "contacts" -> "Account_Name"
    [] e = "accounts" -> "Owner"
    [] e = "intern_roles" -> "Intern_Company"
RefColumn(e) ==
  CASE e = "contacts" -> "account_id"
    [] e = "accounts" -> "owner_id"
    [] e = "intern_roles" -> "intern_company_id"

\* A checkbox field the three mappers read with .get(key, False), and its
\* Boolean column.
BoolKey == "Locked__s"
BoolColumn == "locked"

\* Columns of the three tables (class Contact, Account, InternRole).
Columns(e) ==
  CASE e = "contacts" -> {"id", "first_name", "last_name", "email", "phone",
                          "role_success_stage", "account_id", "locked"}
    [] e = "accounts" -> {"id", "name", "owner_id", "locked"}
    [] e = "intern_roles" -> {"id", "name", "role_title", "intern_company_id", "locked"}

\* Keys of contact_data / account_data / role_data.
MappedKeys(e) ==
  CASE e = "contacts" -> {"id", "first_name", "last_name", "email", "phone",
                          "role_success_stage", "account_id", "locked"}
    [] e = "accounts" -> {"id", "name", "owner_id", "locked", "modified_time"}
    [] e = "intern_roles" -> {"id", "name", "role_title", "intern_company_id", "locked"}

\* JSON values of a lookup field: null, an object, a text.
NoRef == [none |-> TRUE]
Obj(fields) == [dict |-> fields]
Str(text) == [str |-> text]

\* ------------------------------------------------------------ datetimes
\* A timezone-aware datetime, as datetime.fromisoformat returns for a string
\* with an offset.
Aware(loc, off) == [loc |-> loc, off |-> off, tz |-> TRUE]
\* A naive datetime: what a DateTime column gives back.
Naive(loc) == [loc |-> loc, off |-> 0, tz |-> FALSE]
\* No datetime at all.
NoTime == [none |-> TRUE]
\* The instant an aware datetime denotes.
Instant(t) == t.loc - t.off

\* parse_datetime / datetime.fromisoformat(s.replace('Z', '+00:00')) of a
\* Modified_Time string.
parse_datetime(s) == IF s = NoTime THEN NoTime ELSE Aware(s.loc, s.off)

\* What a DateTime column (no timezone) keeps of a bound datetime: the
\* wall-clock fields, the offset dropped.
ToColumn(v) == IF v = NoTime THEN NoTime ELSE Naive(v.loc)

\* ------------------------------------------------------------------ state
VARIABLES
  clock,         \* the current time (hours)
  zone,          \* the UTC offset at which Zoho shows times to the API user
  remote,        \* remote[e][i]: the record i of module e in Zoho, or NoRecord
  db,            \* db[e]: the rows of the local table of e, in insertion order
  sync_tracker,  \* the rows of table sync_tracker, in insertion order
  run,           \* the sync entry point in progress
  hook,          \* the last webhook-triggered contact update
  job,           \* the scheduled job (run_etl.py)
  other          \* a second invocation of a sync entry point, in another process

vars == <<clock, zone, remote, db, sync_tracker, run, hook, job, other>>

NoRecord == [none |-> TRUE]
NoRow == [none |-> TRUE]
NoTracker == [none |-> TRUE]
NoCriteria == [none |-> TRUE]

\* ------------------------------------------------- the record source (Zoho)
\* The Zoho string of a modification made at instant t and shown at offset off.
ZohoTime(t, off) == [loc |-> t + off, off |-> off]

\* A record as the API returns it: Modified_Time at the offset of the API user.
Rendered(record) ==
  [id |-> record.id, Modified_Time |-> ZohoTime(record.modified, zone), raw |-> record.raw]

\* The record of module e whose text fields all hold v: its lookup is null
\* or an object, its checkbox false or true.
Version(e, v) ==
  [k \in RawKeys(e) \cup {RefKey(e), BoolKey} |->
     IF k \in RawKeys(e) THEN v
     ELSE IF k = BoolKey THEN (IF v = NULL THEN "False" ELSE "True")
     ELSE IF v = NULL THEN NoRef ELSE Obj([id |-> v, name |-> v])]
RemoteVersions(e) == {Version(e, v) : v \in RawValues}

\* The records of module e that a request with `criteria` selects.
Selected(e, criteria) ==
  {i \in Ids : /\ remote[e][i] # NoRecord
               /\ \/ criteria = NoCriteria
                  \/ remote[e][i].modified > Instant(criteria.time)}

\* sort_by=Modified_Time, sort_order=asc (records of one instant by id).
SortsBefore(e, i, j) ==
  LET a == remote[e][i].modified
      b == remote[e][j].modified
  IN  a < b \/ (a = b /\ i <= j)

RECURSIVE SortedIds(_, _)
SortedIds(e, S) ==
  IF S = {} THEN <<>>
  ELSE LET m == CHOOSE i \in S : \A j \in S : SortsBefore(e, i, j)
       IN  <<m>> \o SortedIds(e, S \ {m})

\* One response of GET /crm/v2/<module>?page=p&per_page=PerPage: its 'data'
\* and info.more_records.
Response(e, criteria, p) ==
  LET all == SortedIds(e, Selected(e, criteria))
      lo == (p - 1) * PerPage + 1
      hi == IF p * PerPage < Len(all) THEN p * PerPage ELSE Len(all)
  IN  [data |-> [k \in 1..(IF hi >= lo THEN hi - lo + 1 ELSE 0) |-> Rendered(remote[e][all[lo + k - 1]])],
       more_records |-> Len(all) > p * PerPage]

\* ------------------------------------------------------ the tracker store
\* get_sync_tracker: query(SyncTracker).filter_by(entity_type=e).first()
TrackerRows(tbl, e) == {k \in 1..Len(tbl) : tbl[k].entity_type = e}
get_sync_tracker(tbl, e) ==
  IF TrackerRows(tbl, e) = {} THEN NoTracker
  ELSE tbl[CHOOSE k \in TrackerRows(tbl, e) : \A m \in TrackerRows(tbl, e) : k <= m]

\* update_sync_tracker, the table after its commit: the first row of the
\* entity type is overwritten, or a row is added.  The DateTime column
\* keeps the timestamp without its offset.
update_sync_tracker(tbl, e, last_timestamp, records_count) ==
  LET new == [entity_type |-> e,
              last_sync_timestamp |-> ToColumn(last_timestamp),
              records_synced |-> records_count]
  IN  IF TrackerRows(tbl, e) = {} THEN Append(tbl, new)
      ELSE LET first == CHOOSE k \in TrackerRows(tbl, e) : \A m \in TrackerRows(tbl, e) : k <= m
           IN  [tbl EXCEPT ![first] = new]

\* strftime("%z") of an offset of whole hours: sign and digits, no colon.
strftime_z(off) ==
  [sign |-> IF off < 0 THEN "-" ELSE "+", hours |-> IF off < 0 THEN -off ELSE off,
   colon |-> FALSE]

\* `if formatted_time.endswith('+0000'): formatted_time[:-5] + '+00:00'`
AddColon(z) == IF z = strftime_z(0) THEN [z EXCEPT !.colon = TRUE] ELSE z

\* build_incremental_criteria: a naive timestamp is taken as UTC; the result
\* stands for "(Modified_Time:greater_than:<timestamp>)", `time` the moment
\* the text names and `offset` the way the text writes its UTC offset.
build_incremental_criteria(last_sync_timestamp) ==
  IF last_sync_timestamp = NoTime THEN NoCriteria
  ELSE LET t == IF last_sync_timestamp.tz THEN last_sync_timestamp
                ELSE Aware(last_sync_timestamp.loc, 0)
       IN  [op |-> "greater_than", time |-> t, offset |-> AddColon(strftime_z(t.off))]

\* get_latest_modified_time: the latest parsed Modified_Time of the records,
\* compared as instants; None for no record.
RECURSIVE LatestFrom(_, _, _)
LatestFrom(records, k, latest) ==
  IF k > Len(records) THEN latest
  ELSE LET modified_time == parse_datetime(records[k].Modified_Time)
       IN  LatestFrom(records, k + 1,
             IF modified_time = NoTime THEN latest
             ELSE IF latest = NoTime \/ Instant(modified_time) > Instant(latest)
                  THEN modified_time ELSE latest)
get_latest_modified_time(records) == LatestFrom(records, 1, NoTime)

\* ------------------------------------------------------ the entity mapper
TimeKeys == {"updated_time", "modified_time"}

\* dict.get(key, default)
dict_get(d, key, default) == IF key \in DOMAIN d THEN d[key] ELSE default

\* What a mapper helper yields when it raises AttributeError.
AttributeError == "<AttributeError>"

\* extract_id: `obj.get('id') if obj else None`.  None, '' and {} are false;
\* a text that is not empty has no .get.
extract_id(obj) ==
  IF "none" \in DOMAIN obj THEN NULL
  ELSE IF "str" \in DOMAIN obj THEN (IF obj.str = "" THEN NULL ELSE AttributeError)
  ELSE IF DOMAIN obj.dict = {} THEN NULL
  ELSE dict_get(obj.dict, "id", NULL)

\* contact_data, account_data and role_data of the three sync loops.
contact_data(contact) ==
  [k \in MappedKeys("contacts") |->
     CASE k = "id" -> contact.id
       [] k = "first_name" -> dict_get(contact.raw, "First_Name", NULL)
       [] k = "last_name" -> dict_get(contact.raw, "Last_Name", NULL)
       [] k = "email" -> dict_get(contact.raw, "Email", NULL)
       [] k = "phone" -> dict_get(contact.raw, "Phone", NULL)
       [] k = "role_success_stage" -> dict_get(contact.raw, "Role_Success_Stage", NULL)
       [] k = "account_id" -> extract_id(dict_get(contact.raw, "Account_Name", NoRef))
       [] k = "locked" -> dict_get(contact.raw, "Locked__s", "False")]

account_data(account) ==
  [k \in MappedKeys("accounts") |->
     CASE k = "id" -> account.id
       [] k = "name" -> dict_get(account.raw, "Account_Name", NULL)
       [] k = "owner_id" -> extract_id(dict_get(account.raw, "Owner", NoRef))
       [] k = "locked" -> dict_get(account.raw, "Locked__s", "False")
       [] k = "modified_time" -> parse_datetime(account.Modified_Time)]

role_data(role) ==
  [k \in MappedKeys("intern_roles") |->
     CASE k = "id" -> role.id
       [] k = "name" -> dict_get(role.raw, "Name", NULL)
       [] k = "role_title" -> dict_get(role.raw, "Role_Title", NULL)
       [] k = "intern_company_id" -> extract_id(dict_get(role.raw, "Intern_Company", NoRef))
       [] k = "locked" -> dict_get(role.raw, "Locked__s", "False")]

Mapped(e, record) ==
  CASE e = "contacts" -> contact_data(record)
    [] e = "accounts" -> account_data(record)
    [] e = "intern_roles" -> role_data(record)

\* Building the dict raised: one of its helpers did.
MapperRaises(e, record) == Mapped(e, record)[RefColumn(e)] = AttributeError

\* ---------------------------------------------------------- the reconciler
\* What a column keeps of a value bound to it.
Stored(k, v) == IF k \in TimeKeys THEN ToColumn(v) ELSE v

RowIndexes(tbl, id) == {k \in 1..Len(tbl) : tbl[k]["id"] = id}

\* A lookup that misses the row: every fetched record is taken for a new one.
SessionGetMisses(tbl, id) == NoRow

\* session.get(Model, id): the row with this primary key, or None.
SessionGet(tbl, id) ==
  IF RowIndexes(tbl, id) = {} THEN NoRow
  ELSE tbl[CHOOSE k \in RowIndexes(tbl, id) : TRUE]

\* Model(**data): the declarative constructor refuses a key that is no
\* attribute of the class.
ConstructorAccepts(e, data) == DOMAIN data \subseteq Columns(e)

\* The row that session.add(Model(**data)) inserts.
NewRow(e, data) == [k \in Columns(e) |-> Stored(k, data[k])]

\* A merge in place of the full replace: a None value is not assigned.
AssignedNonNull(e, data) ==
  [k \in {c \in (DOMAIN data \ {"id"}) \cap Columns(e) : data[c] # NULL} |-> data[k]]

\* `for key, value in data.items(): if key != 'id': setattr(existing, key, value)`:
\* the new values of the columns.  An attribute that is no column is set on
\* the object and never written.
Assigned(e, data) == [k \in (DOMAIN data \ {"id"}) \cap Columns(e) |-> data[k]]

\* An UPDATE that leaves alone a column which another session has changed
\* since the row was loaded.
UpdatedRowKeepsForeign(row, op) ==
  [k \in DOMAIN row |->
     IF k \in DOMAIN op.set /\ op.set[k] # op.loaded[k] /\ row[k] = op.loaded[k]
     THEN Stored(k, op.set[k])
     ELSE row[k]]

\* The row after the UPDATE that the flush emits: it writes the attributes
\* whose new value differs from the loaded one.
UpdatedRow(row, op) ==
  [k \in DOMAIN row |->
     IF k \in DOMAIN op.set /\ op.set[k] # op.loaded[k] THEN Stored(k, op.set[k])
     ELSE row[k]]

\* An update that lands as a further row beside the one it was loaded from.
ApplyOpAppends(tbl, op) ==
  IF op.kind = "insert" THEN Append(tbl, op.row)
  ELSE Append(tbl, UpdatedRow(op.loaded, op))

\* One unit of work applied to a table.
ApplyOp(tbl, op) ==
  IF op.kind = "insert" THEN Append(tbl, op.row)
  ELSE [k \in 1..Len(tbl) |-> IF tbl[k]["id"] = op.id THEN UpdatedRow(tbl[k], op) ELSE tbl[k]]

\* The loop over the fetched records: for each, look the row up in the
\* session (which sees its own flushed changes), then update it or add a new
\* one.  `view` is the table as the session sees it, `ops` the units of work,
\* `error` the exception that ended the loop.  `bad` is the index of a record
\* without its 'id' key, where record['id'] raises KeyError (0: none).
RECURSIVE Reconcile(_, _, _, _, _, _)
Reconcile(e, records, k, bad, view, ops) ==
  IF k > Len(records) THEN [error |-> "none", view |-> view, ops |-> ops]
  ELSE IF k = bad THEN [error |-> "KeyError", view |-> view, ops |-> ops]
  ELSE IF MapperRaises(e, records[k])
       THEN [error |-> "AttributeError", view |-> view, ops |-> ops]
  ELSE
    LET data == Mapped(e, records[k])
        existing == SessionGet(view, data["id"])
        op == IF existing # NoRow
              THEN [kind |-> "update", id |-> data["id"], set |-> Assigned(e, data),
                    loaded |-> existing]
              ELSE [kind |-> "insert", id |-> data["id"], row |-> NewRow(e, data)]
    IN  IF existing = NoRow /\ ~ConstructorAccepts(e, data)
        THEN [error |-> "TypeError", view |-> view, ops |-> ops]
        ELSE Reconcile(e, records, k + 1, bad, ApplyOp(view, op), Append(ops, op))

\* session.commit(): the units of work reach the table, unless an INSERT
\* meets a row with its primary key.
RECURSIVE Flush(_, _, _)
Flush(tbl, ops, k) ==
  IF k > Len(ops) THEN [error |-> "none", tbl |-> tbl]
  ELSE IF ops[k].kind = "insert" /\ RowIndexes(tbl, ops[k].id) # {}
       THEN [error |-> "IntegrityError", tbl |-> tbl]
       ELSE Flush(ApplyOp(tbl, ops[k]), ops, k + 1)

\* A failed commit that keeps the first unit of work.
RolledBackPartly(tbl, ops) == IF ops = <<>> THEN tbl ELSE ApplyOp(tbl, ops[1])

\* The table after a commit that failed: the transaction is rolled back.
RolledBack(tbl, ops) == tbl

\* The tracker written after every commit, whatever was fetched.
AdvancesWatermarkAlways(e, incremental, records) == TRUE

\* Whether the entry point of e writes the tracker after its commit.
AdvancesWatermark(e, incremental, records) ==
  /\ IF e = "contacts" THEN records # <<>> ELSE incremental /\ records # <<>>
  /\ get_latest_modified_time(records) # NoTime

\* --------------------------------------------------------------- actions
IdleRun ==
  [pc |-> "idle", entity |-> "contacts", incremental |-> TRUE, criteria |-> NoCriteria,
   page |-> 1, all_data |-> <<>>, ops |-> <<>>, status |-> "none", committed |-> FALSE,
   started |-> 0, db0 |-> <<>>, tracker0 |-> <<>>]

\* The scheduled job is not running.  exit_status is read once pc is "exited".
NoJob ==
  [pc |-> "idle", started |-> <<>>, completed |-> <<>>, failed |-> NULL, exit_status |-> 0]

\* No second invocation is under way.
NoOther == [pc |-> "idle", entity |-> "contacts", all_data |-> <<>>]

\* No webhook request is being handled.  sync_pc: where a bulk sync stood
\* when update_local_contact ran.
NoInfo == [none |-> TRUE]
NoRequest == [none |-> TRUE]
NoHook ==
  [pc |-> "idle", contact_info |-> NoInfo, before |-> NoRow, updated |-> FALSE,
   files |-> 0, status |-> "none", log |-> <<>>, served |-> 0, sync_pc |-> "idle",
   request |-> NoRequest]

Init ==
  /\ clock = 0
  /\ zone \in Offsets
  /\ remote = [e \in EntityTypes |-> [i \in Ids |-> NoRecord]]
  /\ db = [e \in EntityTypes |-> <<>>]
  /\ sync_tracker = <<>>
  /\ run = IdleRun
  /\ hook = NoHook
  /\ job = NoJob
  /\ other = NoOther

\* A sync reads the record source and nothing else of its surroundings, and
\* only in FetchPage.  An edit, or a change of the zone or of the clock, that
\* falls between the last page of a sync and its return has the effect of
\* the same event right after the return, so the surroundings move only
\* while no sync is in its local steps.
SourceInUse == run.pc \in {"idle", "fetch"}

\* Time passes.
Tick ==
  /\ SourceInUse
  /\ clock < MaxTime
  /\ clock' = clock + 1
  /\ UNCHANGED <<zone, remote, db, sync_tracker, run, hook, job, other>>

\* The offset of the API user's time zone changes (daylight saving, or the
\* user's settings).
ZoneChange(off) ==
  /\ SourceInUse
  /\ off # zone
  /\ zone' = off
  /\ UNCHANGED <<clock, remote, db, sync_tracker, run, hook, job, other>>

\* A user of the CRM creates or edits record i of module e; Zoho stamps it
\* with the current time.  Each behaviour keeps its records in one module.
RemoteModify(e, i, raw) ==
  /\ SourceInUse
  /\ \A e2 \in EntityTypes \ {e} : \A j \in Ids : remote[e2][j] = NoRecord
  /\ remote[e][i] # [id |-> i, modified |-> clock, raw |-> raw]
  /\ remote' = [remote EXCEPT ![e][i] = [id |-> i, modified |-> clock, raw |-> raw]]
  /\ UNCHANGED <<clock, zone, db, sync_tracker, run, hook, job, other>>

\* sync_contacts / sync_accounts / sync_intern_roles up to the fetch:
\* ensure_database_ready, then the criteria from the tracker.
\* A failed schema check that is logged, the run going on to its fetch.
MigrationFailedGoesOn(begun) == [begun EXCEPT !.pc = "fetch", !.status = "MigrationError"]

\* ensure_database_ready: `if not run_migrations(): raise Exception(...)`,
\* the first statement of each entry point.
MigrationFailed(begun) == [begun EXCEPT !.pc = "raised", !.status = "MigrationError"]

\* An entry point that builds the filter whenever the tracker has a
\* timestamp, asked for an incremental run or not.
StartedIgnoresMode(e, incremental, migrated) ==
  LET tracker == get_sync_tracker(sync_tracker, e)
      criteria == IF tracker # NoTracker
                  THEN build_incremental_criteria(tracker.last_sync_timestamp)
                  ELSE NoCriteria
      begun == [IdleRun EXCEPT !.entity = e, !.incremental = incremental,
                               !.started = clock, !.db0 = db[e],
                               !.tracker0 = sync_tracker]
  IN  IF migrated
      THEN [begun EXCEPT !.pc = "fetch", !.criteria = criteria]
      ELSE MigrationFailed(begun)

Started(e, incremental, migrated) ==
  LET tracker == get_sync_tracker(sync_tracker, e)
      criteria == IF incremental /\ tracker # NoTracker
                  THEN build_incremental_criteria(tracker.last_sync_timestamp)
                  ELSE NoCriteria
      begun == [IdleRun EXCEPT !.entity = e, !.incremental = incremental,
                               !.started = clock, !.db0 = db[e],
                               !.tracker0 = sync_tracker]
  IN  IF migrated
      THEN [begun EXCEPT !.pc = "fetch", !.criteria = criteria]
      ELSE MigrationFailed(begun)

StartSync(e, incremental, migrated) ==
  /\ run.pc = "idle"
  /\ run' = Started(e, incremental, migrated)
  /\ UNCHANGED <<clock, zone, remote, db, sync_tracker, hook, job, other>>

\* A fetch error that ends the loop and hands the pages read so far to the sync.
FetchFailedKeepsPages(r) == [r EXCEPT !.pc = "process", !.status = "HTTPError"]

\* raise_for_status raises: the error leaves get_paginated_data and, nothing
\* catching it, the sync entry point.
FetchFailed(r) == [r EXCEPT !.pc = "raised", !.status = "HTTPError"]

\* A loop that ends after its first page.
MorePagesNever(response) == FALSE

\* `if not response.json().get('info', {}).get('more_records'): break`
MorePages(response) == response.more_records

\* One turn of the loop of get_paginated_data: a request, raise_for_status,
\* then the page is added and the loop ends or goes to the next page.
FetchPage(ok) ==
  /\ run.pc = "fetch"
  /\ LET response == Response(run.entity, run.criteria, run.page)
     IN  run' = IF ~ok THEN FetchFailed(run)
                ELSE IF response.data = <<>> THEN [run EXCEPT !.pc = "process"]
                ELSE [run EXCEPT !.all_data = run.all_data \o response.data,
                                 !.page = IF MorePages(response) THEN run.page + 1
                                          ELSE run.page,
                                 !.pc = IF MorePages(response) THEN "fetch"
                                        ELSE "process"]
  /\ UNCHANGED <<clock, zone, remote, db, sync_tracker, hook, job, other>>

\* A session that had sent each unit of work to the table for good as the
\* loop went.
AbandonedAfterWrites(tbl, ops) == Flush(tbl, ops, 1).tbl

\* The table after the loop raised: the session, never committed, is dropped
\* with its units of work.
Abandoned(tbl, ops) == tbl

\* A loop that goes from its last record to the tracker update, the
\* session never committed.
LoopDoneSkipsCommit(r, ops) == [r EXCEPT !.pc = "watermark", !.ops = ops]

\* The loop ended without an exception: `try: session.commit()` is next.
LoopDone(r, ops) == [r EXCEPT !.pc = "commit", !.ops = ops]

\* The loop over the fetched records, in a new session.  bad: the index of a
\* fetched record that has no 'id' key (0: none).  An exception leaves the
\* function at once.
ProcessBatch(bad) ==
  /\ run.pc = "process"
  /\ bad \in 0..Len(run.all_data)
  /\ LET out == Reconcile(run.entity, run.all_data, 1, bad, db[run.entity], <<>>)
     IN  IF out.error = "none"
         THEN /\ run' = LoopDone(run, out.ops)
              /\ db' = db
         ELSE /\ run' = [run EXCEPT !.pc = "raised", !.status = out.error, !.ops = out.ops]
              /\ db' = [db EXCEPT ![run.entity] = Abandoned(db[run.entity], out.ops)]
  /\ UNCHANGED <<clock, zone, remote, sync_tracker, hook, job, other>>

\* session.commit(); on an exception session.rollback() and raise.
Commit(ok) ==
  /\ run.pc = "commit"
  /\ LET out == Flush(db[run.entity], run.ops, 1)
     IN  IF ok /\ out.error = "none"
         THEN /\ db' = [db EXCEPT ![run.entity] = out.tbl]
              /\ run' = [run EXCEPT !.pc = "watermark", !.committed = TRUE, !.ops = <<>>]
         ELSE /\ db' = [db EXCEPT ![run.entity] = RolledBack(db[run.entity], run.ops)]
              /\ run' = [run EXCEPT !.pc = "raised",
                                    !.status = IF ok THEN out.error ELSE "CommitError"]
  /\ UNCHANGED <<clock, zone, remote, sync_tracker, hook, job, other>>

\* A failed tracker update whose write stays.
TrackerKeptWrite(tbl, e, last_timestamp, records_count) ==
  update_sync_tracker(tbl, e, last_timestamp, records_count)

\* The tracker table after update_sync_tracker raised: rolled back.
TrackerRolledBack(tbl, e, last_timestamp, records_count) == tbl

\* After the commit: the tracker update, when the entry point makes one.
AdvanceWatermark(ok) ==
  /\ run.pc = "watermark"
  /\ LET e == run.entity
         latest_modified_time == get_latest_modified_time(run.all_data)
     IN  IF AdvancesWatermark(e, run.incremental, run.all_data)
         THEN IF ok
              THEN /\ sync_tracker' = update_sync_tracker(sync_tracker, e,
                                         latest_modified_time, Len(run.all_data))
                   /\ run' = [run EXCEPT !.pc = "returned", !.status = "ok"]
              ELSE /\ sync_tracker' = TrackerRolledBack(sync_tracker, e,
                                         latest_modified_time, Len(run.all_data))
                   /\ run' = [run EXCEPT !.pc = "raised", !.status = "TrackerError"]
         ELSE /\ sync_tracker' = sync_tracker
              /\ run' = [run EXCEPT !.pc = "returned", !.status = "ok"]
  /\ UNCHANGED <<clock, zone, remote, db, hook, job, other>>

\* The entry point returns or raises to its caller.
Finish ==
  /\ run.pc \in {"returned", "raised"}
  /\ run' = IdleRun
  /\ UNCHANGED <<clock, zone, remote, db, sync_tracker, hook, job, other>>

\* The process dies in the middle of a sync.
Crash ==
  /\ run.pc \in {"fetch", "process", "commit", "watermark"}
  /\ run' = IdleRun
  /\ UNCHANGED <<clock, zone, remote, db, sync_tracker, hook, job, other>>

Next ==
  \/ Tick
  \/ \E off \in Offsets : ZoneChange(off)
  \/ \E e \in EntityTypes, i \in Ids :
       \E raw \in RemoteVersions(e) : RemoteModify(e, i, raw)
  \/ \E e \in EntityTypes, incremental \in BOOLEAN, migrated \in BOOLEAN :
       StartSync(e, incremental, migrated)
  \/ \E ok \in BOOLEAN : FetchPage(ok)
  \/ \E bad \in 0..MaxIds + 1 : ProcessBatch(bad)
  \/ \E ok \in BOOLEAN : Commit(ok)
  \/ \E ok \in BOOLEAN : AdvanceWatermark(ok)
  \/ Finish
  \/ Crash

Spec == Init /\ [][Next]_vars

\* ------------------------------------------------------------ the webhook
\* Python truthiness of a text value: None and '' are false.
Truthy(v) == v \notin {NULL, ""}

\* `a or b`: a when it is true, else b.
Or(a, b) == IF Truthy(a) THEN a ELSE b

\* The status value that triggers the CV download.
ReadyToPitch == "Ready to Pitch"

\* The five columns update_local_contact patches.
PatchFields == {"role_success_stage", "first_name", "last_name", "email", "phone"}

\* dict.get(key): None for a key the dict lacks.
Get(data, key) == IF key \in DOMAIN data THEN data[key] ELSE NULL

\* get_contact_full_name, as the list of the parts that ' '.join glues; no
\* payload here carries Full_Name, name or fullName.
Unknown == <<"Unknown">>
get_contact_full_name(webhook_data) ==
  LET first_name == Or(Get(webhook_data, "First_Name"), Or(Get(webhook_data, "firstName"), ""))
      last_name == Or(Get(webhook_data, "Last_Name"), Or(Get(webhook_data, "lastName"), ""))
      name_parts == SelectSeq(<<first_name, last_name>>, Truthy)
  IN  IF name_parts # <<>> THEN name_parts ELSE Unknown

\* extract_contact_info of a payload that carries the record itself (or, all
\* fields absent, only its identifier).  modified_time, which nothing reads
\* afterwards, is left out.
extract_contact_info(id, webhook_data) ==
  [id |-> id,
   name |-> get_contact_full_name(webhook_data),
   first_name |-> Or(Get(webhook_data, "First_Name"), Get(webhook_data, "firstName")),
   last_name |-> Or(Get(webhook_data, "Last_Name"), Get(webhook_data, "lastName")),
   email |-> Or(Get(webhook_data, "Email"), Get(webhook_data, "email")),
   role_success_stage |-> Or(Get(webhook_data, "Role_Success_Stage"),
                             Get(webhook_data, "stage")),
   phone |-> Or(Get(webhook_data, "Phone"), Get(webhook_data, "phone"))]

\* Whether process_contact_update asks Zoho for the complete contact.
NeedsComplete(contact_info) ==
  ~Truthy(contact_info.role_success_stage) \/ contact_info.name = Unknown

\* The merge of process_contact_update: a value of the complete record fills
\* a key that the webhook left empty or Unknown.
MergeComplete(contact_info, complete_contact_info) ==
  [key \in DOMAIN contact_info |->
     IF key = "id" THEN contact_info[key]
     ELSE IF key = "name"
          THEN IF contact_info[key] = Unknown THEN complete_contact_info[key]
               ELSE contact_info[key]
          ELSE IF Truthy(complete_contact_info[key]) /\ ~Truthy(contact_info[key])
               THEN complete_contact_info[key]
               ELSE contact_info[key]]

\* A patch that assigns every field contact_info has a key for.
update_local_contact_all(contact, contact_info) ==
  [k \in DOMAIN contact |->
     IF k \in PatchFields /\ k \in DOMAIN contact_info THEN contact_info[k]
     ELSE contact[k]]

\* update_local_contact on the row found: a field is assigned when
\* contact_info holds a true value for it.
update_local_contact(contact, contact_info) ==
  [k \in DOMAIN contact |->
     IF k \in PatchFields /\ Truthy(Get(contact_info, k)) THEN contact_info[k]
     ELSE contact[k]]

\* extract_contact_info reads each field under several spellings,
\* `get(k1) or get(k2) or ...`.  What a webhook payload holds under the first
\* and the last spelling of a field: a value (None: the key is absent) under
\* the first and nothing under the last, or an empty text under the last alone.
FieldShapes(f) ==
  {<<v, NULL>> : v \in {NULL, "", "x"} \cup (IF f = "role_success_stage" THEN {ReadyToPitch} ELSE {})}
    \cup {<<NULL, "">>}
Payloads ==
  {[First_Name |-> fn[1], firstName |-> fn[2], Last_Name |-> ln[1], lastName |-> ln[2],
    Email |-> em[1], email |-> em[2], Phone |-> ph[1], phone |-> ph[2],
    Role_Success_Stage |-> st[1], stage |-> st[2]] :
     fn \in FieldShapes("first_name"), ln \in FieldShapes("last_name"),
     em \in FieldShapes("email"), ph \in FieldShapes("phone"),
     st \in FieldShapes("role_success_stage")}

\* handle_contact_webhook -> process_contact_update, up to the request for
\* the complete contact.
Received(id, webhook_data) ==
  LET contact_info == extract_contact_info(id, webhook_data)
  IN  [hook EXCEPT
         !.pc = IF NeedsComplete(contact_info) THEN "complete" ELSE "update",
         !.contact_info = contact_info]

ReceiveWebhook(id, webhook_data) ==
  /\ hook.pc = "idle"
  /\ hook.served < MaxHooks
  /\ hook' = Received(id, webhook_data)
  /\ UNCHANGED <<clock, zone, remote, db, sync_tracker, run, job, other>>

\* A payload whose 'data' is neither a list nor a dict: extract_contact_info
\* returns None and process_contact_update answers with an error.
RejectWebhook ==
  /\ hook.pc = "idle"
  /\ hook.served < MaxHooks
  /\ hook' = [hook EXCEPT !.pc = "responded", !.status = "error"]
  /\ UNCHANGED <<clock, zone, remote, db, sync_tracker, run, job, other>>

\* zoho_client.get_contact_by_id and the merge.  fetched: the request
\* returned a record (it returns None on an HTTP error or an empty answer).
CompleteContact(fetched, raw) ==
  /\ hook.pc = "complete"
  /\ hook' = [hook EXCEPT
                !.pc = "update",
                !.contact_info =
                   IF fetched
                   THEN MergeComplete(hook.contact_info,
                                      extract_contact_info(hook.contact_info.id, raw))
                   ELSE hook.contact_info]
  /\ UNCHANGED <<clock, zone, remote, db, sync_tracker, run, job, other>>

\* A patch whose query has no filter: every row is the contact.
PatchTableUnfiltered(tbl, contact_info) ==
  [k \in 1..Len(tbl) |-> update_local_contact(tbl[k], contact_info)]

\* The contacts table after update_local_contact committed: the row that
\* query(Contact).filter(Contact.id == contact_info['id']).first() found is
\* patched.
PatchTable(tbl, contact_info) ==
  [k \in 1..Len(tbl) |->
     IF tbl[k]["id"] = contact_info.id THEN update_local_contact(tbl[k], contact_info)
     ELSE tbl[k]]

\* A trigger on any stage that is not empty.
TriggersDownloadAnyStage(contact_info) == Truthy(contact_info.role_success_stage)

\* `if role_success_stage == "Ready to Pitch":`
TriggersDownload(contact_info) == contact_info.role_success_stage = ReadyToPitch

\* update_local_contact: query, patch, commit.  ok: the commit succeeds.
\* The return value is dropped by process_contact_update, which goes on to
\* the download or answers.
UpdateLocalContact(ok) ==
  /\ hook.pc = "update"
  /\ LET contact == SessionGet(db["contacts"], hook.contact_info.id)
         found == contact # NoRow
     IN  /\ db' = IF found /\ ok
                  THEN [db EXCEPT !["contacts"] = PatchTable(@, hook.contact_info)]
                  ELSE db
         /\ hook' = [hook EXCEPT
                       !.before = contact,
                       !.updated = found /\ ok,
                       !.sync_pc = run.pc,
                       !.log = Append(@, "update"),
                       !.pc = IF TriggersDownload(hook.contact_info)
                              THEN "download" ELSE "responded",
                       !.status = IF TriggersDownload(hook.contact_info)
                                  THEN "none" ELSE "success"]
  /\ UNCHANGED <<clock, zone, remote, sync_tracker, run, job, other>>

\* attachment_manager.download_contact_cvs, then the response.  ok: the
\* download raises nothing; files: how many CVs it stored.
DownloadCvs(ok, files) ==
  /\ hook.pc = "download"
  /\ hook' = [hook EXCEPT
                !.pc = "responded",
                !.log = Append(@, "download"),
                !.files = IF ok THEN files ELSE 0,
                !.status = IF ok THEN "success" ELSE "error"]
  /\ UNCHANGED <<clock, zone, remote, db, sync_tracker, run, job, other>>

\* The response is sent; the handler waits for the next request.
Respond ==
  /\ hook.pc = "responded"
  /\ hook' = [NoHook EXCEPT !.served = hook.served + 1]
  /\ UNCHANGED <<clock, zone, remote, db, sync_tracker, run, job, other>>

\* The contacts table as bulk syncs have left it: rows for some of the
\* identifiers.
SyncedRow(i, raw) ==
  NewRow("contacts", Mapped("contacts", [id |-> i, Modified_Time |-> ZohoTime(0, 0), raw |-> raw]))
SyncedTables ==
  {<<>>}
    \cup {<<SyncedRow(1, raw)>> : raw \in RemoteVersions("contacts")}
    \cup {<<SyncedRow(1, raw), SyncedRow(2, raw2)>> :
            raw \in RemoteVersions("contacts"), raw2 \in RemoteVersions("contacts")}

InitWebhook ==
  /\ clock = 0
  /\ zone = 0
  /\ remote = [e \in EntityTypes |-> [i \in Ids |-> NoRecord]]
  /\ \E tbl \in SyncedTables : db = [e \in EntityTypes |-> IF e = "contacts" THEN tbl ELSE <<>>]
  /\ sync_tracker = <<>>
  /\ run = IdleRun
  /\ hook = NoHook
  /\ job = NoJob
  /\ other = NoOther

NextWebhook ==
  \/ \E id \in Ids, webhook_data \in Payloads : ReceiveWebhook(id, webhook_data)
  \/ RejectWebhook
  \/ \E fetched \in BOOLEAN, raw \in RemoteVersions("contacts") : CompleteContact(fetched, raw)
  \/ \E ok \in BOOLEAN : UpdateLocalContact(ok)
  \/ \E ok \in BOOLEAN, files \in 0..1 : DownloadCvs(ok, files)
  \/ Respond

SpecWebhook == InitWebhook /\ [][NextWebhook]_vars

\* ------------------------------------------------ the webhook endpoint
\* HMAC-SHA256 of a payload under a key, as the pair it is a function of.
Hmac(key, payload) == [key |-> key, payload |-> payload]

\* WEBHOOK_SECRET of the handler.
WebhookSecret == "secret"

\* The signature header of a request is absent.
NoSignature == [none |-> TRUE]

\* verify_webhook_signature: compare_digest of the signature with the HMAC
\* of the payload under the secret; False when the comparison raises (no
\* signature).  Nothing in the module calls it.
verify_webhook_signature(payload, signature) ==
  signature # NoSignature /\ signature = Hmac(WebhookSecret, payload)

\* Requests to POST /webhook/zoho/contact: a record with its stage, signed
\* by Zoho, signed under another key, or not signed.
EndpointPayloads ==
  {webhook_data \in Payloads :
     /\ webhook_data.First_Name = "x" /\ webhook_data.Last_Name = "x"
     /\ webhook_data.Email \in {"x", NULL} /\ webhook_data.Phone = "x"
     /\ webhook_data.Role_Success_Stage \in {"x", ReadyToPitch}}
Signatures(payload) == {Hmac(WebhookSecret, payload), Hmac("guess", payload), NoSignature}

\* handle_contact_webhook: the payload is read and parsed and handed to
\* process_contact_update.
HandleContactWebhook(id, webhook_data, signature) ==
  /\ hook.pc = "idle"
  /\ hook.served < MaxHooks
  /\ hook' = [Received(id, webhook_data) EXCEPT
                !.request = [payload |-> <<id, webhook_data>>, signature |-> signature]]
  /\ UNCHANGED <<clock, zone, remote, db, sync_tracker, run, job, other>>

NextEndpoint ==
  \/ \E id \in Ids, webhook_data \in EndpointPayloads :
       \E signature \in Signatures(<<id, webhook_data>>) :
         HandleContactWebhook(id, webhook_data, signature)
  \/ \E ok \in BOOLEAN : UpdateLocalContact(ok)
  \/ \E ok \in BOOLEAN, files \in 0..1 : DownloadCvs(ok, files)
  \/ Respond

SpecEndpoint == InitWebhook /\ [][NextEndpoint]_vars

\* ------------------------------------------------- the criteria, by itself
\* Tracker timestamps as build_incremental_criteria accepts them: aware at
\* any offset (a store that keeps the timezone), or naive.
StampHours == 0..3
StampOffsets == -2..2
Stamps ==
  {Aware(loc, off) : loc \in StampHours, off \in StampOffsets}
    \cup {Naive(loc) : loc \in StampHours}

InitCriteria ==
  /\ clock = 0
  /\ zone = 0
  /\ remote = [e \in EntityTypes |-> [i \in Ids |-> NoRecord]]
  /\ db = [e \in EntityTypes |-> <<>>]
  /\ \E e \in EntityTypes, t \in Stamps :
       sync_tracker = <<[entity_type |-> e, last_sync_timestamp |-> t, records_synced |-> 1]>>
  /\ run = IdleRun
  /\ hook = NoHook
  /\ job = NoJob
  /\ other = NoOther

NextCriteria == \E e \in EntityTypes, incremental \in BOOLEAN : StartSync(e, incremental, TRUE)

SpecCriteria == InitCriteria /\ [][NextCriteria]_vars

\* --------------------------------------------------- the mappers, by input
\* What the API may send for a lookup field (None here: the key is absent)
\* and for a checkbox.
RefInputs ==
  {NoRef, Obj([id |-> "x", name |-> "x"]), Obj([name |-> "x"]), Obj([k \in {} |-> NULL]),
   Str("x"), Str("")}
BoolInputs == {NULL, "True", "False"}
MapperInputs(e) ==
  {[k \in RawKeys(e) \cup refdom \cup booldom |->
      IF k \in RawKeys(e) THEN "x" ELSE IF k = BoolKey THEN b ELSE ref] :
     ref \in RefInputs, b \in BoolInputs,
     refdom \in {{}, {RefKey(e)}}, booldom \in {{}, {BoolKey}}}

\* One record in the source, any input of its mapper; the local table empty
\* or holding a row for the record.
InitMapper ==
  /\ clock = 0
  /\ zone = 0
  /\ \E e \in EntityTypes, stored \in BOOLEAN : \E raw \in MapperInputs(e) :
       /\ remote = [e2 \in EntityTypes |->
                      [i \in Ids |-> IF e2 = e /\ i = 1
                                     THEN [id |-> 1, modified |-> 0, raw |-> raw]
                                     ELSE NoRecord]]
       /\ db = [e2 \in EntityTypes |->
                  IF e2 = e /\ stored
                  THEN <<[k \in Columns(e) |->
                            IF k = "id" THEN 1 ELSE IF k = BoolColumn THEN "True" ELSE "x"]>>
                  ELSE <<>>]
  /\ sync_tracker = <<>>
  /\ run = IdleRun
  /\ hook = NoHook
  /\ job = NoJob
  /\ other = NoOther

NextMapper ==
  \/ \E e \in EntityTypes, incremental \in BOOLEAN : StartSync(e, incremental, TRUE)
  \/ FetchPage(TRUE)
  \/ ProcessBatch(0)
  \/ Commit(TRUE)
  \/ AdvanceWatermark(TRUE)
  \/ Finish

SpecMapper == InitMapper /\ [][NextMapper]_vars

\* ------------------------------------------------------ the scheduled job
\* run_etl.main: the three entry points in the order of the source, each
\* with its default argument (incremental=True).
Steps == <<"contacts", "accounts", "intern_roles">>

\* An `except` block that logs the failure and goes on with the next step.
OnExceptionContinues(j) ==
  IF Len(j.started) = Len(Steps)
  THEN [j EXCEPT !.pc = "exited", !.failed = j.started[Len(j.started)], !.exit_status = 0]
  ELSE [j EXCEPT !.pc = "main", !.failed = j.started[Len(j.started)]]

\* `except Exception as e: ... sys.exit(1)`
OnException(j) ==
  [j EXCEPT !.pc = "exited", !.failed = j.started[Len(j.started)], !.exit_status = 1]

\* main calls the next entry point.  migrated: run_migrations succeeds.
JobCall(migrated) ==
  /\ job.pc = "main"
  /\ run.pc = "idle"
  /\ LET e == Steps[Len(job.started) + 1]
     IN  /\ run' = Started(e, TRUE, migrated)
         /\ job' = [job EXCEPT !.pc = "call", !.started = Append(@, e)]
  /\ UNCHANGED <<clock, zone, remote, db, sync_tracker, hook, other>>

\* The entry point returns: main logs and goes on, and past the last step
\* returns itself, which ends the process with status 0.
JobReturn ==
  /\ job.pc = "call"
  /\ run.pc = "returned"
  /\ run' = IdleRun
  /\ job' = IF Len(job.started) = Len(Steps)
            THEN [job EXCEPT !.pc = "exited", !.completed = Append(@, run.entity),
                             !.exit_status = 0]
            ELSE [job EXCEPT !.pc = "main", !.completed = Append(@, run.entity)]
  /\ UNCHANGED <<clock, zone, remote, db, sync_tracker, hook, other>>

\* The entry point raises into the try block of main.
JobRaise ==
  /\ job.pc = "call"
  /\ run.pc = "raised"
  /\ run' = IdleRun
  /\ job' = OnException(job)
  /\ UNCHANGED <<clock, zone, remote, db, sync_tracker, hook, other>>

\* The job starts with each module of the source empty or holding one
\* record, and the local tables empty.
InitJob ==
  /\ clock = 0
  /\ zone = 0
  /\ \E full \in SUBSET EntityTypes :
       remote = [e \in EntityTypes |->
                   [i \in Ids |-> IF e \in full /\ i = 1
                                  THEN [id |-> 1, modified |-> 0, raw |-> Version(e, "x")]
                                  ELSE NoRecord]]
  /\ db = [e \in EntityTypes |-> <<>>]
  /\ sync_tracker = <<>>
  /\ run = IdleRun
  /\ hook = NoHook
  /\ job = [NoJob EXCEPT !.pc = "main"]
  /\ other = NoOther

NextJob ==
  \/ \E migrated \in BOOLEAN : JobCall(migrated)
  \/ \E ok \in BOOLEAN : FetchPage(ok)
  \/ \E bad \in 0..MaxIds + 1 : ProcessBatch(bad)
  \/ \E ok \in BOOLEAN : Commit(ok)
  \/ \E ok \in BOOLEAN : AdvanceWatermark(ok)
  \/ JobReturn
  \/ JobRaise

SpecJob == InitJob /\ [][NextJob]_vars

\* ------------------------------------------------------ the tracker store
\* A table without the unique constraint (the declaration of
\* database/sync_tracker.py): every insert is taken.
InsertAnyTracker(tbl, new) == Append(tbl, new)

\* session.add(tracker); session.commit() on the table that models.py
\* declares, entity_type unique: a second row of an entity type is refused
\* (IntegrityError) and the session rolled back.
InsertTracker(tbl, new) ==
  IF TrackerRows(tbl, new.entity_type) # {} THEN tbl ELSE Append(tbl, new)

TrackerCounts == 1..2
TrackerStamps == {Aware(loc, 0) : loc \in 0..1}

\* One call of update_sync_tracker.  raced: its query ran before the commit
\* of another session that inserted the row of the entity type, and found
\* none.  run keeps the table the call started from and how it ended.
TrackerUpdate(e, last_timestamp, records_count, raced) ==
  /\ run.pc = "idle"
  /\ LET new == [entity_type |-> e,
                 last_sync_timestamp |-> ToColumn(last_timestamp),
                 records_synced |-> records_count]
         refused == raced /\ InsertTracker(sync_tracker, new) = sync_tracker
     IN  /\ sync_tracker' = IF raced THEN InsertTracker(sync_tracker, new)
                            ELSE update_sync_tracker(sync_tracker, e, last_timestamp,
                                                     records_count)
         /\ run' = [IdleRun EXCEPT !.entity = e, !.tracker0 = sync_tracker,
                                   !.status = IF refused THEN "IntegrityError" ELSE "ok"]
  /\ UNCHANGED <<clock, zone, remote, db, hook, job, other>>

NextTracker ==
  \E e \in EntityTypes, last_timestamp \in TrackerStamps, records_count \in TrackerCounts,
     raced \in BOOLEAN : TrackerUpdate(e, last_timestamp, records_count, raced)

SpecTracker == Init /\ [][NextTracker]_vars

\* ------------------------------ a bulk contacts sync beside the webhook
\* The handler and the pipeline are two processes on one database; each
\* step of one may fall between two steps of the other.  One contact is in
\* the source and in the table, and one sync runs.
InitRace ==
  /\ clock = 0
  /\ zone = 0
  /\ \E raw \in RemoteVersions("contacts"), stored \in RemoteVersions("contacts") :
       /\ remote = [e \in EntityTypes |->
                      [i \in Ids |-> IF e = "contacts" /\ i = 1
                                     THEN [id |-> 1, modified |-> 0, raw |-> raw]
                                     ELSE NoRecord]]
       /\ db = [e \in EntityTypes |->
                  IF e = "contacts" THEN <<SyncedRow(1, stored)>> ELSE <<>>]
  /\ sync_tracker = <<>>
  /\ run = Started("contacts", TRUE, TRUE)
  /\ hook = NoHook
  /\ job = NoJob
  /\ other = NoOther

NextRace ==
  \/ FetchPage(TRUE)
  \/ ProcessBatch(0)
  \/ \E ok \in BOOLEAN : Commit(ok)
  \/ \E ok \in BOOLEAN : AdvanceWatermark(ok)
  \/ \E id \in Ids, webhook_data \in Payloads : ReceiveWebhook(id, webhook_data)
  \/ RejectWebhook
  \/ \E fetched \in BOOLEAN, raw \in RemoteVersions("contacts") : CompleteContact(fetched, raw)
  \/ \E ok \in BOOLEAN : UpdateLocalContact(ok)
  \/ \E ok \in BOOLEAN, files \in 0..1 : DownloadCvs(ok, files)
  \/ Respond

SpecRace == InitRace /\ [][NextRace]_vars

\* ------------------------------------------- the choice of the fetch mode
\* The tracker table before a run: empty, or one row whose timestamp is a
\* stored one or NULL (the column is nullable).
InitFilter ==
  /\ clock = 0
  /\ zone = 0
  /\ remote = [e \in EntityTypes |-> [i \in Ids |-> NoRecord]]
  /\ db = [e \in EntityTypes |-> <<>>]
  /\ sync_tracker \in
       {<<>>} \cup
       {<<[entity_type |-> e, last_sync_timestamp |-> t, records_synced |-> 1]>> :
          e \in EntityTypes, t \in Stamps \cup {NoTime}}
  /\ run = IdleRun
  /\ hook = NoHook
  /\ job = NoJob
  /\ other = NoOther

NextFilter ==
  \E e \in EntityTypes, incremental \in BOOLEAN, migrated \in BOOLEAN :
    StartSync(e, incremental, migrated)

SpecFilter == InitFilter /\ [][NextFilter]_vars

\* ------------------------------------------- the paginated fetch, by itself
\* A source that stays as it is while it is read: one module holds some of
\* the records, each modified at some hour; the tracker is empty or holds a
\* timestamp, so that the fetch has a filter or none.
InitFetch ==
  /\ clock = MaxTime
  /\ zone = 0
  /\ \E e \in EntityTypes, modified \in [Ids -> (0..MaxTime) \cup {-1}] :
       remote = [e2 \in EntityTypes |->
                   [i \in Ids |-> IF e2 = e /\ modified[i] >= 0
                                  THEN [id |-> i, modified |-> modified[i],
                                        raw |-> Version(e, "x")]
                                  ELSE NoRecord]]
  /\ db = [e \in EntityTypes |-> <<>>]
  /\ sync_tracker \in
       {<<>>} \cup
       {<<[entity_type |-> e, last_sync_timestamp |-> Naive(0), records_synced |-> 1]>> :
          e \in EntityTypes}
  /\ run = IdleRun
  /\ hook = NoHook
  /\ job = NoJob
  /\ other = NoOther

FetchTurn == \E ok \in BOOLEAN : FetchPage(ok)

NextFetch ==
  \/ \E e \in EntityTypes, incremental \in BOOLEAN : StartSync(e, incremental, TRUE)
  \/ FetchTurn

\* A request gets its answer and the loop takes its next turn.
SpecFetch == InitFetch /\ [][NextFetch]_vars /\ WF_vars(FetchTurn)

\* ------------------------------------- two invocations of one entry point
\* Nothing keeps the scheduled job, a second job or a script from calling
\* the entry point of an entity type while a call of it is under way.  The
\* second call is taken in two steps: up to the end of its fetch, and from
\* its loop to its tracker update.
OtherFetch(e) ==
  /\ other.pc = "idle"
  /\ LET tracker == get_sync_tracker(sync_tracker, e)
         criteria == IF tracker # NoTracker
                     THEN build_incremental_criteria(tracker.last_sync_timestamp)
                     ELSE NoCriteria
         all == SortedIds(e, Selected(e, criteria))
     IN  other' = [pc |-> "fetched", entity |-> e,
                   all_data |-> [k \in 1..Len(all) |-> Rendered(remote[e][all[k]])]]
  /\ UNCHANGED <<clock, zone, remote, db, sync_tracker, run, hook, job>>

OtherFinish ==
  /\ other.pc = "fetched"
  /\ LET e == other.entity
         out == Reconcile(e, other.all_data, 1, 0, db[e], <<>>)
         flushed == Flush(db[e], out.ops, 1)
     IN  IF out.error = "none" /\ flushed.error = "none"
         THEN /\ db' = [db EXCEPT ![e] = flushed.tbl]
              /\ sync_tracker' =
                   IF AdvancesWatermark(e, TRUE, other.all_data)
                   THEN update_sync_tracker(sync_tracker, e,
                          get_latest_modified_time(other.all_data), Len(other.all_data))
                   ELSE sync_tracker
              /\ other' = [other EXCEPT !.pc = "done"]
         ELSE /\ db' = db
              /\ sync_tracker' = sync_tracker
              /\ other' = [other EXCEPT !.pc = "raised"]
  /\ UNCHANGED <<clock, zone, remote, run, hook, job>>

InitRuns ==
  /\ clock = 0
  /\ zone = 0
  /\ remote = [e \in EntityTypes |-> [i \in Ids |-> NoRecord]]
  /\ db = [e \in EntityTypes |-> <<>>]
  /\ sync_tracker = <<>>
  /\ run = IdleRun
  /\ hook = NoHook
  /\ job = NoJob
  /\ other = NoOther

NextRuns ==
  \/ Tick
  \/ \E e \in EntityTypes, i \in Ids :
       \E raw \in RemoteVersions(e) : RemoteModify(e, i, raw)
  \/ \E e \in EntityTypes : StartSync(e, TRUE, TRUE)
  \/ FetchPage(TRUE)
  \/ ProcessBatch(0)
  \/ \E ok \in BOOLEAN : Commit(ok)
  \/ \E ok \in BOOLEAN : AdvanceWatermark(ok)
  \/ \E e \in EntityTypes : OtherFetch(e)
  \/ OtherFinish

SpecRuns == InitRuns /\ [][NextRuns]_vars

\* ---------------------------------------------------------------- claims
\* The sync in progress has committed its batch.
Committed == run.pc \in {"watermark", "returned"} \/ run.status = "TrackerError"

\* The record k of the fetched batch is the last one with its identifier.
LastOfItsId(k) ==
  \A m \in (k + 1)..Len(run.all_data) : run.all_data[m].id # run.all_data[k].id

\* The row that holds exactly the mapped values of a fetched record.
RowFor(e, record) == NewRow(e, Mapped(e, record))

TrackerStamp(tbl, e) == get_sync_tracker(tbl, e).last_sync_timestamp

\* C1: after every successful run the tracker's last_sync_timestamp is at
\* least what it was before the run.
C1_WatermarkNeverDecreases ==
  (run.pc = "returned" /\ get_sync_tracker(run.tracker0, run.entity) # NoTracker)
    => /\ get_sync_tracker(sync_tracker, run.entity) # NoTracker
       /\ TrackerStamp(sync_tracker, run.entity).loc >= TrackerStamp(run.tracker0, run.entity).loc

\* C2: when an incremental run has succeeded, every remote record whose last
\* modification precedes the start of that run has a local row with the
\* values of that modification.
C2_NoModificationSkipped ==
  (run.pc = "returned" /\ run.incremental)
    => \A i \in Ids :
         (remote[run.entity][i] # NoRecord /\ remote[run.entity][i].modified < run.started)
           => SessionGet(db[run.entity], i) = RowFor(run.entity, Rendered(remote[run.entity][i]))

\* C3: a sync that runs again over records already committed (the tracker
\* update of the earlier run having failed) updates their rows in place: its
\* commit meets no duplicate key, no identifier has two rows, and every
\* fetched identifier has exactly one.
C3_RerunKeepsOneRowPerId ==
  /\ run.status # "IntegrityError"
  /\ Committed =>
       /\ \A i \in Ids : Cardinality(RowIndexes(db[run.entity], i)) <= 1
       /\ \A k \in 1..Len(run.all_data) :
            Cardinality(RowIndexes(db[run.entity], run.all_data[k].id)) = 1
       /\ \A k \in 1..Len(run.db0) : db[run.entity][k]["id"] = run.db0[k]["id"]

C3_Witness ==
  /\ run.pc = "watermark"
  /\ run.entity = "contacts"
  /\ run.db0 # <<>>
  /\ get_sync_tracker(run.tracker0, "contacts") = NoTracker
  /\ run.all_data # <<>>
  /\ \A k \in 1..Len(run.all_data) : SessionGet(run.db0, run.all_data[k].id) # NoRow

\* C4: when applying a record or the commit fails, the entry point raises,
\* the entity table is as it was before the run and the tracker is not
\* written.
BatchErrors == {"KeyError", "TypeError", "CommitError", "IntegrityError"}
C4_FailedBatchPersistsNothing ==
  run.status \in BatchErrors
    => /\ run.pc = "raised"
       /\ ~run.committed
       /\ db[run.entity] = run.db0
       /\ sync_tracker = run.tracker0

C4_Witness ==
  /\ run.pc = "raised"
  /\ run.status = "CommitError"
  /\ \E k \in 1..Len(run.ops) : run.ops[k].kind = "insert"
  /\ \E k \in 1..Len(run.ops) : run.ops[k].kind = "update"

\* C5: a run of any of the three entry points, incremental or full, that
\* commits a non-empty batch and returns leaves in the tracker the latest
\* Modified_Time of the batch and the size of the batch.
C5_TrackerRecordsEveryBatch ==
  (run.pc = "returned" /\ run.all_data # <<>>)
    => /\ get_sync_tracker(sync_tracker, run.entity) # NoTracker
       /\ TrackerStamp(sync_tracker, run.entity)
            = ToColumn(get_latest_modified_time(run.all_data))
       /\ get_sync_tracker(sync_tracker, run.entity).records_synced = Len(run.all_data)

C7_TrackerFailureKeepsBatch ==
  run.status = "TrackerError"
    => /\ run.pc = "raised"
       /\ sync_tracker = run.tracker0
       /\ \A k \in 1..Len(run.all_data) :
            LastOfItsId(k) => SessionGet(db[run.entity], run.all_data[k].id)
                                = RowFor(run.entity, run.all_data[k])

C7_Witness ==
  /\ run.status = "TrackerError"
  /\ get_sync_tracker(run.tracker0, run.entity) # NoTracker
  /\ db[run.entity] # run.db0

\* C8: a record whose mapped values a row already holds (it was applied
\* once) leaves that row, and the number of rows, the same when a second run
\* applies it again.
C8_SecondApplicationChangesNothing ==
  Committed =>
    \A k \in 1..Len(run.all_data) :
      LET old == SessionGet(run.db0, run.all_data[k].id)
      IN  (old # NoRow /\ old = RowFor(run.entity, run.all_data[k])
             /\ \A m \in 1..Len(run.all_data) :
                  run.all_data[m].id = run.all_data[k].id => m = k)
            => /\ SessionGet(db[run.entity], run.all_data[k].id) = old
               /\ Cardinality(RowIndexes(db[run.entity], run.all_data[k].id)) = 1

C8_Witness ==
  /\ run.pc = "watermark"
  /\ Len(run.all_data) = 1
  /\ SessionGet(run.db0, run.all_data[1].id) = RowFor(run.entity, run.all_data[1])
  /\ run.all_data[1].raw = Version(run.entity, "x")

\* C9: after the commit, a row that existed before the run holds, in every
\* mapped column but id, the newly mapped value: a null one replaces what
\* was there.
C9_UpdateOverwritesEveryField ==
  Committed =>
    \A k \in 1..Len(run.all_data) :
      (LastOfItsId(k) /\ SessionGet(run.db0, run.all_data[k].id) # NoRow)
        => \A key \in (MappedKeys(run.entity) \cap Columns(run.entity)) \ {"id"} :
             SessionGet(db[run.entity], run.all_data[k].id)[key]
               = Stored(key, Mapped(run.entity, run.all_data[k])[key])

C9_Witness ==
  /\ run.pc = "watermark"
  /\ run.entity = "contacts"
  /\ \E k \in 1..Len(run.all_data) :
       /\ SessionGet(run.db0, run.all_data[k].id) # NoRow
       /\ SessionGet(run.db0, run.all_data[k].id)["email"] = "x"
       /\ Mapped(run.entity, run.all_data[k])["email"] = NULL
       /\ SessionGet(db[run.entity], run.all_data[k].id)["email"] = NULL

C11_CriteriaTextHasColonOffset ==
  (run.pc = "fetch" /\ run.incremental
     /\ get_sync_tracker(sync_tracker, run.entity) # NoTracker)
    => LET t == TrackerStamp(sync_tracker, run.entity)
       IN  /\ run.criteria # NoCriteria
           /\ run.criteria.op = "greater_than"
           /\ Instant(run.criteria.time) = t.loc - t.off
           /\ run.criteria.offset.colon
           /\ ~t.tz => run.criteria.offset = [sign |-> "+", hours |-> 0, colon |-> TRUE]

\* C12: a sync whose fetch raised has raised itself, with the entity table
\* and the tracker table as they were when it started.
C12_FetchErrorWritesNothing ==
  run.status = "HTTPError"
    => /\ run.pc = "raised"
       /\ ~run.committed
       /\ db = [db EXCEPT ![run.entity] = run.db0]
       /\ sync_tracker = run.tracker0

C12_Witness ==
  /\ run.status = "HTTPError"
  /\ run.page = 2
  /\ run.all_data # <<>>
  /\ SessionGet(run.db0, run.all_data[1].id) = NoRow
  /\ get_sync_tracker(run.tracker0, run.entity) # NoTracker

\* C13: when a fetched record lacks its identifier the sync raises; no row
\* of the batch is stored, of the records before the malformed one or after
\* it, and the tracker table is as it was.
C13_MissingIdAbortsWholeBatch ==
  run.status = "KeyError"
    => /\ run.pc = "raised"
       /\ Len(db[run.entity]) = Len(run.db0)
       /\ \A k \in 1..Len(run.all_data) :
            SessionGet(db[run.entity], run.all_data[k].id)
              = SessionGet(run.db0, run.all_data[k].id)
       /\ sync_tracker = run.tracker0

C13_Witness ==
  /\ run.status = "KeyError"
  /\ Len(run.all_data) = 2
  /\ Len(run.ops) = 1
  /\ run.ops[1].kind = "insert"
  /\ get_sync_tracker(run.tracker0, run.entity) # NoTracker

\* The value a unit of work holds for a column.
OpValue(op, column) == IF op.kind = "insert" THEN op.row[column] ELSE op.set[column]

\* C14: mapping a record never raises, and a lookup field whose value is no
\* object (absent, null, a text) is mapped to null.
C14_MapperToleratesMalformedFields ==
  /\ run.status # "AttributeError"
  /\ run.pc = "commit" =>
       \A k \in 1..Len(run.ops) :
         "dict" \notin DOMAIN dict_get(run.all_data[k].raw, RefKey(run.entity), NoRef)
           => OpValue(run.ops[k], RefColumn(run.entity)) = NULL

\* C15: a checkbox that the record lacks, or holds as null, is mapped to
\* false.
C15_AbsentBooleanMapsToFalse ==
  run.pc = "commit" =>
    \A k \in 1..Len(run.ops) :
      dict_get(run.all_data[k].raw, BoolKey, NULL) = NULL
        => OpValue(run.ops[k], BoolColumn) = "False"

\* C16: the CV download starts only for a contact whose resolved stage is
\* "Ready to Pitch", and then after the local update; a request answered for
\* any other stage has made the local update and nothing else.
C16_DownloadOnlyWhenReadyToPitch ==
  /\ \A k \in 1..Len(hook.log) :
       hook.log[k] = "download" =>
         /\ hook.contact_info.role_success_stage = ReadyToPitch
         /\ k = 2
         /\ hook.log[1] = "update"
  /\ (hook.pc = "responded" /\ hook.contact_info # NoInfo) =>
       hook.log = IF hook.contact_info.role_success_stage = ReadyToPitch
                  THEN <<"update", "download">> ELSE <<"update">>

C16_Witness ==
  /\ hook.pc = "responded"
  /\ hook.log = <<"update", "download">>
  /\ hook.updated
  /\ hook.before["role_success_stage"] = "x"
  /\ hook.files = 1

\* C17: a step of the webhook handler leaves the contacts table with the
\* same rows in the same places, changes none but the row of the identifier
\* the request carries, and leaves every other table and the tracker alone.
C17_WebhookTouchesOneRow ==
  [][/\ Len(db'["contacts"]) = Len(db["contacts"])
     /\ \A k \in 1..Len(db["contacts"]) :
          db'["contacts"][k] # db["contacts"][k] =>
            /\ hook.pc = "update"
            /\ db["contacts"][k]["id"] = hook.contact_info.id
            /\ db'["contacts"][k]["id"] = hook.contact_info.id
     /\ \A e \in EntityTypes \ {"contacts"} : db'[e] = db[e]
     /\ sync_tracker' = sync_tracker]_vars

C17_Witness ==
  /\ hook.pc = "responded"
  /\ hook.updated
  /\ Len(db["contacts"]) = 2
  /\ hook.contact_info.id = 2
  /\ db["contacts"][2] # hook.before
  /\ db["contacts"][1]["first_name"] = "x"
  /\ hook.contact_info.first_name = NULL /\ hook.before["first_name"] = NULL

\* C18: when sync_contacts(incremental=True) has returned without raising,
\* get_sync_tracker('contacts') finds a tracker row, the first run included.
C18_ContactsReturnLeavesTracker ==
  (run.pc = "returned" /\ run.entity = "contacts" /\ run.incremental)
    => get_sync_tracker(sync_tracker, "contacts") # NoTracker

\* C19: the job starts contacts, accounts and intern-roles in that order,
\* each after the one before it completed; once a step raised, no later
\* step is started and the process exits with a status other than zero; the
\* exit status is zero only after all three completed.
C19_JobOrderAndExitStatus ==
  /\ Len(job.started) <= Len(Steps)
  /\ \A k \in 1..Len(job.started) : job.started[k] = Steps[k]
  /\ \A k \in 1..Len(job.completed) : job.completed[k] = Steps[k]
  /\ Len(job.completed) <= Len(job.started)
  /\ Len(job.started) <= Len(job.completed) + 1
  /\ job.failed # NULL =>
       /\ job.started[Len(job.started)] = job.failed
       /\ Len(job.completed) = Len(job.started) - 1
       /\ job.pc = "exited"
       /\ job.exit_status # 0
  /\ (job.pc = "exited" /\ job.exit_status = 0) => job.completed = Steps

C19_Witness ==
  /\ job.pc = "exited"
  /\ job.exit_status = 1
  /\ job.started = <<"contacts", "accounts">>
  /\ job.completed = <<"contacts">>
  /\ job.failed = "accounts"
  /\ db["contacts"] # <<>>

\* C20: the tracker table holds at most one row of each entity type, and a
\* call of update_sync_tracker leaves every row that was there in its place
\* with its entity_type.
C20_OneTrackerRowPerEntityType ==
  [][/\ \A e \in EntityTypes : Cardinality(TrackerRows(sync_tracker', e)) <= 1
     /\ Len(sync_tracker') >= Len(sync_tracker)
     /\ \A k \in 1..Len(sync_tracker) :
          sync_tracker'[k].entity_type = sync_tracker[k].entity_type]_vars

C20_Witness ==
  /\ Len(sync_tracker) = 3
  /\ get_sync_tracker(run.tracker0, run.entity) # NoTracker
  /\ sync_tracker # run.tracker0
  /\ run.entity = sync_tracker[2].entity_type
  /\ run.status = "ok"

\* C21: a webhook update of a contact that commits after the bulk sync
\* fetched the contact and before the bulk sync commits stops neither; once
\* both have committed, a patched column holds the value the bulk sync
\* fetched wherever that value is neither the one the row had at the start
\* of the sync nor the one the webhook wrote: the webhook's value is gone.
C21_BulkCommitOverwritesWebhook ==
  (Committed /\ hook.updated /\ hook.sync_pc \in {"process", "commit"})
    => \A k \in 1..Len(run.all_data) :
         run.all_data[k].id = hook.contact_info.id =>
           \A f \in PatchFields :
             LET fetched == Mapped("contacts", run.all_data[k])[f]
             IN  fetched \notin {SessionGet(run.db0, run.all_data[k].id)[f],
                                 hook.contact_info[f]}
                   => SessionGet(db["contacts"], run.all_data[k].id)[f] = fetched

C21_Witness ==
  /\ run.pc = "watermark"
  /\ hook.updated
  /\ hook.sync_pc = "commit"
  /\ hook.pc = "responded"
  /\ hook.log = <<"update", "download">>
  /\ hook.before["role_success_stage"] = NULL
  /\ hook.contact_info.role_success_stage = ReadyToPitch
  /\ SessionGet(db["contacts"], hook.contact_info.id)["role_success_stage"] = "x"

\* C22: within a run the tracker table changes only in the step after the
\* commit of the batch, the entity table then being left alone; and the
\* criteria that the run built from the tracker before its fetch stays as it
\* is until the run ends.
C22_TrackerOnlyBeforeFetchAndAfterCommit ==
  [][/\ sync_tracker' # sync_tracker =>
          /\ run.pc = "watermark"
          /\ run.committed
          /\ db' = db
     /\ (run.pc \in {"fetch", "process", "commit"} /\ run'.pc # "idle") =>
          /\ sync_tracker' = sync_tracker
          /\ run'.criteria = run.criteria
          /\ run'.tracker0 = run.tracker0]_vars

C22_Witness ==
  /\ run.pc = "returned"
  /\ run.incremental
  /\ run.criteria # NoCriteria
  /\ get_sync_tracker(run.tracker0, run.entity) # NoTracker
  /\ sync_tracker # run.tracker0
  /\ db[run.entity] # run.db0

\* C23: a run that reaches its fetch has no filter exactly when it is not
\* incremental, the tracker has no row of its entity type, or that row has
\* no timestamp; otherwise its filter asks for the records later than the
\* moment of the tracker's timestamp.
C23_FullFetchExactlyWithoutWatermark ==
  run.pc = "fetch" =>
    LET tracker == get_sync_tracker(sync_tracker, run.entity)
        full == \/ ~run.incremental
                \/ tracker = NoTracker
                \/ (tracker # NoTracker /\ tracker.last_sync_timestamp = NoTime)
    IN  IF full THEN run.criteria = NoCriteria
        ELSE /\ run.criteria # NoCriteria
             /\ run.criteria.op = "greater_than"
             /\ Instant(run.criteria.time) = Instant(tracker.last_sync_timestamp)

C23_Witness ==
  /\ run.pc = "fetch"
  /\ run.entity = "accounts"
  /\ run.incremental
  /\ get_sync_tracker(sync_tracker, "accounts") # NoTracker
  /\ TrackerStamp(sync_tracker, "accounts") = NoTime
  /\ run.criteria = NoCriteria

\* C24: a run whose schema check failed has raised without a request to
\* the record source (no page asked for, nothing fetched), and the entity
\* tables and the tracker table are as they were when it started.
C24_FailedSchemaCheckTouchesNothing ==
  run.status = "MigrationError"
    => /\ run.pc = "raised"
       /\ run.page = 1
       /\ run.all_data = <<>>
       /\ run.criteria = NoCriteria
       /\ ~run.committed
       /\ db = [db EXCEPT ![run.entity] = run.db0]
       /\ sync_tracker = run.tracker0

C24_Witness ==
  /\ run.status = "MigrationError"
  /\ run.pc = "raised"
  /\ run.incremental
  /\ db[run.entity] # <<>>
  /\ get_sync_tracker(sync_tracker, run.entity) # NoTracker
  /\ \E i \in Ids : /\ remote[run.entity][i] # NoRecord
                    /\ SessionGet(db[run.entity], i) = NoRow

\* The records that match the filter of the run, in the order of the source.
Matching == SortedIds(run.entity, Selected(run.entity, run.criteria))

\* C25: against a source that stays as it is, the fetch comes to an end;
\* when it returns it holds every matching record, page after page in the
\* order of the source, and it has asked for as many pages as the source
\* has; while it goes on it holds the pages before the one it asks for, and
\* there is such a page.
C25_FetchReturnsEveryPage ==
  /\ [](run.pc = "process" =>
          /\ run.all_data = [k \in 1..Len(Matching) |->
                               Rendered(remote[run.entity][Matching[k]])]
          /\ run.page = IF Matching = <<>> THEN 1
                        ELSE (Len(Matching) + PerPage - 1) \div PerPage)
  /\ [](run.pc = "fetch" =>
          /\ Len(run.all_data) = (run.page - 1) * PerPage
          /\ run.page > 1 => Len(Matching) > (run.page - 1) * PerPage
          /\ \A k \in 1..Len(run.all_data) :
               run.all_data[k] = Rendered(remote[run.entity][Matching[k]]))
  /\ (run.pc = "fetch" ~> run.pc \in {"process", "raised"})

C25_Witness ==
  /\ run.pc = "process"
  /\ run.criteria # NoCriteria
  /\ run.page > 1
  /\ Len(run.all_data) = run.page * PerPage
  /\ \A k \in 1..Len(run.all_data) : run.all_data[k].Modified_Time.loc = MaxTime

\* C26: the filter that the next run builds from the timestamp a run has
\* just stored denotes the instant of the latest Modified_Time that the run
\* handed to update_sync_tracker.
C26_WatermarkKeepsItsInstant ==
  [][sync_tracker' # sync_tracker =>
       LET stored == TrackerStamp(sync_tracker', run.entity)
           passed == get_latest_modified_time(run.all_data)
       IN  Instant(build_incremental_criteria(stored).time) = Instant(passed)]_vars

\* C27: no run is ended by the constructor of a row refusing a mapped
\* field, and a run that has committed has a row for every identifier of
\* its batch, those not stored before included.
C27_NewIdentifierIsInserted ==
  /\ run.status # "TypeError"
  /\ Committed =>
       \A k \in 1..Len(run.all_data) :
         SessionGet(db[run.entity], run.all_data[k].id) # NoRow

\* C28: when two invocations of the sync of one entity type have both
\* finished, each with a batch, the tracker holds the later of the latest
\* Modified_Time of the two batches, and no less than it held when the
\* first of them started.
C28_InterleavedRunsKeepTheLaterWatermark ==
  (/\ run.pc = "returned" /\ run.all_data # <<>>
   /\ other.pc = "done" /\ other.all_data # <<>>
   /\ other.entity = run.entity)
    => LET a == get_latest_modified_time(run.all_data)
           b == get_latest_modified_time(other.all_data)
           stamp == TrackerStamp(sync_tracker, run.entity)
       IN  /\ stamp = ToColumn(IF Instant(a) >= Instant(b) THEN a ELSE b)
           /\ get_sync_tracker(run.tracker0, run.entity) # NoTracker
                => stamp.loc >= TrackerStamp(run.tracker0, run.entity).loc

\* C29: a request is answered with status 'success' only when
\* update_local_contact changed the row and committed; when it found no row
\* or failed, the answer has status 'error'.
C29_SuccessOnlyAfterCommittedUpdate ==
  hook.pc = "responded" =>
    /\ hook.status = "success" => hook.updated
    /\ (hook.contact_info # NoInfo /\ ~hook.updated) => hook.status = "error"

\* C30: the endpoint changes a contact row, or starts a download, only
\* for a request whose signature verify_webhook_signature accepts.
C30_OnlyVerifiedRequestsAct ==
  (hook.request # NoRequest
     /\ (hook.updated \/ \E k \in 1..Len(hook.log) : hook.log[k] = "download"))
    => verify_webhook_signature(hook.request.payload, hook.request.signature)

====
